---------------------------- MODULE Spec2Model ----------------------------
(***************************************************************************)
(* Model of the resource-owning types of the C++ crash course repository.  *)
(*                                                                         *)
(* SimpleString (src/ccc-4.cpp) owns a heap array of max_size chars.  The  *)
(* model keeps a bounded pool of instance slots, a heap of char arrays in  *)
(* which a released address is used again, and one action per member       *)
(* function.  The slots form a stack, as the scopes of the program's       *)
(* objects do.                                                             *)
(*                                                                         *)
(* Heap (src/ccc-7.cpp) is the bucket allocator behind operator new, and   *)
(* SimpleStringOwner (src/ccc-4.cpp) the owner whose constructor throws.   *)
(* The rodeos (src/ccc-19_mutex.cpp), CheckedInteger (src/ccc-7.cpp),      *)
(* Factorial (src/ccc-10.cpp), SimpleUniquePointer (src/ccc-6.cpp) and     *)
(* Element (src/ccc-3.cpp) follow, each with a specification of its own.   *)
(***************************************************************************)
EXTENDS Integers, Sequences, FiniteSets, TLC

(***************************************************************************)
(* Bounds of the model.                                                    *)
(***************************************************************************)
NumInst == 2        \* instance slots that can be live at the same time
MaxSize == 3        \* largest max_size passed to SimpleString(size_t)
MaxTextLen == 1     \* longest text passed to append_line

(***************************************************************************)
(* Characters.  A char is a number; the value of a char that new char[n]   *)
(* has not initialised is indeterminate.                                   *)
(***************************************************************************)
NUL == 0
NL == 10
Indet == -1
Letters == {97}
NULL == 0

Inst == 1..NumInst

\* Addresses of char arrays.  operator= allocates the new array before it
\* releases the old one, so one array more than instances can be in use.
Addr == 1..(NumInst + 1)

RECURSIVE SeqsUpTo(_)
SeqsUpTo(n) ==
    IF n = 0 THEN {<<>>}
    ELSE LET S == SeqsUpTo(n - 1)
         IN  S \cup {Append(s, c) : s \in {t \in S : Len(t) = n - 1}, c \in Letters}

Texts == SeqsUpTo(MaxTextLen)

\* The capacities SimpleString(size_t) is called with: the one it rejects,
\* the smallest, in which no line fits, and the largest.
Sizes == {0, 1, MaxSize}

VARIABLES
    alive,      \* alive[i]: slot i holds a constructed, not yet destroyed instance
    max_size,   \* max_size[i]
    length,     \* length[i]
    buffer,     \* buffer[i]: NULL or the address of a char array
    heap,       \* heap[a]: the char array at address a, if one is allocated there
    badFree,    \* a delete[] was run on an address that holds no array
    ok,         \* the call made last succeeded: append_line returned true,
                \* any other function returned without throwing
    crashed     \* the process was stopped by a read through a null pointer

vars == <<alive, max_size, length, buffer, heap, badFree, ok, crashed>>

(***************************************************************************)
(* The heap.  data is the array (data[k+1] is element k).  An address is   *)
(* free again once its array is released, as in the C++ runtime.           *)
(***************************************************************************)
NoBlock == [allocated |-> FALSE, data |-> <<>>]

FreeAddrs(h) == {a \in Addr : ~h[a].allocated}

\* the address new char[] returns
NewAddr(h) == CHOOSE a \in FreeAddrs(h) : \A b \in FreeAddrs(h) : a <= b

\* new char[n] at address a: an array of n indeterminate chars
NewArray(h, a, n) ==
    [h EXCEPT ![a] = [allocated |-> TRUE, data |-> [k \in 1..n |-> Indet]]]

\* delete[] p: a no-op on nullptr, otherwise the array at p is released
DeleteArray(h, p) ==
    IF p = NULL \/ ~h[p].allocated THEN h
    ELSE [h EXCEPT ![p] = NoBlock]

\* delete[] p on an address that holds no array (released before)
BadDelete(h, p) == p # NULL /\ ~h[p].allocated

\* strlen(s): number of chars before the first NUL
RECURSIVE StrLenFrom(_, _)
StrLenFrom(d, k) ==
    IF k > Len(d) \/ d[k] = NUL THEN k - 1 ELSE StrLenFrom(d, k + 1)

StrLen(d) == StrLenFrom(d, 1)

\* the C string held in an array: the chars before the first NUL
CStr(d) == SubSeq(d, 1, StrLen(d))

\* strcpy(dst, src): the chars of src up to and including its NUL
StrCpy(dst, src) ==
    [k \in 1..Len(dst) |->
        IF k <= StrLen(src) THEN src[k]
        ELSE IF k = StrLen(src) + 1 THEN NUL
        ELSE dst[k]]

\* strncpy(dst, src, n): the offset into the buffer is forgotten
StrNCpyAtStart(dst, off, src, n) ==
    [k \in 1..Len(dst) |->
        IF k <= n
        THEN (IF k <= Len(src) THEN src[k] ELSE NUL)
        ELSE dst[k]]

\* strncpy(dst + off, src, n): n chars are written, src and then NUL padding
StrNCpy(dst, off, src, n) ==
    [k \in 1..Len(dst) |->
        IF k > off /\ k <= off + n
        THEN (IF k - off <= Len(src) THEN src[k - off] ELSE NUL)
        ELSE dst[k]]

\* buffer[idx] = c
Store(d, idx, c) == [k \in 1..Len(d) |-> IF k = idx + 1 THEN c ELSE d[k]]

\* the constructor forgets buffer[0] = 0
InitArrayNoTerminator(d) == d

\* buffer[0] = 0 on the array the constructor has just allocated
InitArray(d) == Store(d, 0, NUL)

\* the check counts the newline but not the terminating NUL
OverflowsOffByOne(appendee_len, len, max) == appendee_len + len + 1 > max

\* the check counts neither the newline nor the terminating NUL
OverflowsTextOnly(appendee_len, len, max) == appendee_len + len > max

\* the capacity check of append_line
Overflows(appendee_len, len, max) == appendee_len + len + 2 > max

(***************************************************************************)
(* Helpers on instances                                                    *)
(***************************************************************************)
FreeSlots == {i \in Inst : ~alive[i]}
NewSlot == CHOOSE i \in FreeSlots : \A j \in FreeSlots : i <= j

Init ==
    /\ alive = [i \in Inst |-> FALSE]
    /\ max_size = [i \in Inst |-> 0]
    /\ length = [i \in Inst |-> 0]
    /\ buffer = [i \in Inst |-> NULL]
    /\ heap = [a \in Addr |-> NoBlock]
    /\ badFree = FALSE
    /\ ok = TRUE
    /\ crashed = FALSE

\* a constructor that records no capacity
ConstructForgetsSize(size) ==
    /\ ~crashed
    /\ IF size = 0
       THEN /\ ok' = FALSE
            /\ UNCHANGED <<alive, max_size, length, buffer, heap, badFree, crashed>>
       ELSE /\ FreeSlots # {}
            /\ FreeAddrs(heap) # {}
            /\ LET i == NewSlot
                   a == NewAddr(heap)
               IN  /\ alive' = [alive EXCEPT ![i] = TRUE]
                   /\ max_size' = [max_size EXCEPT ![i] = 1]
                   /\ length' = [length EXCEPT ![i] = 0]
                   /\ buffer' = [buffer EXCEPT ![i] = a]
                   /\ heap' = [NewArray(heap, a, size) EXCEPT ![a].data = InitArray(@)]
                   /\ ok' = TRUE
                   /\ UNCHANGED <<badFree, crashed>>

\* a constructor that allocates the array before it checks the capacity
ConstructAllocatesFirst(size) ==
    /\ ~crashed
    /\ FreeAddrs(heap) # {}
    /\ IF size = 0
       THEN /\ heap' = NewArray(heap, NewAddr(heap), size)
            /\ ok' = FALSE
            /\ UNCHANGED <<alive, max_size, length, buffer, badFree, crashed>>
       ELSE /\ FreeSlots # {}
            /\ LET i == NewSlot
                   a == NewAddr(heap)
               IN  /\ alive' = [alive EXCEPT ![i] = TRUE]
                   /\ max_size' = [max_size EXCEPT ![i] = size]
                   /\ length' = [length EXCEPT ![i] = 0]
                   /\ buffer' = [buffer EXCEPT ![i] = a]
                   /\ heap' = [NewArray(heap, a, size) EXCEPT ![a].data = InitArray(@)]
                   /\ ok' = TRUE
                   /\ UNCHANGED <<badFree, crashed>>

(***************************************************************************)
(* SimpleString(size_t max_size)                                           *)
(***************************************************************************)
Construct(size) ==
    /\ ~crashed
    /\ IF size = 0
       THEN \* throw std::runtime_error, before anything is allocated
            /\ ok' = FALSE
            /\ UNCHANGED <<alive, max_size, length, buffer, heap, badFree, crashed>>
       ELSE /\ FreeSlots # {}
            /\ FreeAddrs(heap) # {}
            /\ LET i == NewSlot
                   a == NewAddr(heap)
               IN  /\ alive' = [alive EXCEPT ![i] = TRUE]
                   /\ max_size' = [max_size EXCEPT ![i] = size]
                   /\ length' = [length EXCEPT ![i] = 0]
                   /\ buffer' = [buffer EXCEPT ![i] = a]
                   /\ heap' = [NewArray(heap, a, size) EXCEPT ![a].data = InitArray(@)]
                   /\ ok' = TRUE
                   /\ UNCHANGED <<badFree, crashed>>

\* a copy constructor that copies the pointer instead of the array
CopyConstructShallow(o) ==
    /\ ~crashed
    /\ alive[o]
    /\ FreeSlots # {}
    /\ LET i == NewSlot
       IN  /\ alive' = [alive EXCEPT ![i] = TRUE]
           /\ max_size' = [max_size EXCEPT ![i] = max_size[o]]
           /\ length' = [length EXCEPT ![i] = length[o]]
           /\ buffer' = [buffer EXCEPT ![i] = buffer[o]]
           /\ ok' = TRUE
           /\ UNCHANGED <<heap, badFree, crashed>>

(***************************************************************************)
(* SimpleString(const SimpleString& other).  The members are initialised   *)
(* (new char[other.max_size] among them) before strcpy runs; strcpy from   *)
(* the null buffer of a moved-from source reads through a null pointer,    *)
(* which stops the process before the instance exists.                     *)
(***************************************************************************)
CopyConstruct(o) ==
    /\ ~crashed
    /\ alive[o]
    /\ FreeSlots # {}
    /\ FreeAddrs(heap) # {}
    /\ LET i == NewSlot
           a == NewAddr(heap)
           h == NewArray(heap, a, max_size[o])
       IN  IF buffer[o] = NULL
           THEN /\ heap' = h
                /\ crashed' = TRUE
                /\ UNCHANGED ok
                /\ UNCHANGED <<alive, max_size, length, buffer, badFree>>
           ELSE /\ heap' = [h EXCEPT ![a].data = StrCpy(@, heap[buffer[o]].data)]
                /\ alive' = [alive EXCEPT ![i] = TRUE]
                /\ max_size' = [max_size EXCEPT ![i] = max_size[o]]
                /\ length' = [length EXCEPT ![i] = length[o]]
                /\ buffer' = [buffer EXCEPT ![i] = a]
                /\ ok' = TRUE
                /\ UNCHANGED <<badFree, crashed>>

\* a move constructor that leaves the source's pointer in place
MoveConstructKeepsSource(o) ==
    /\ ~crashed
    /\ alive[o]
    /\ FreeSlots # {}
    /\ LET i == NewSlot
       IN  /\ alive' = [alive EXCEPT ![i] = TRUE]
           /\ max_size' = [max_size EXCEPT ![i] = max_size[o], ![o] = 0]
           /\ length' = [length EXCEPT ![i] = length[o], ![o] = 0]
           /\ buffer' = [buffer EXCEPT ![i] = buffer[o]]
           /\ ok' = TRUE
           /\ UNCHANGED <<heap, badFree, crashed>>

(***************************************************************************)
(* SimpleString(SimpleString&& other) noexcept                             *)
(***************************************************************************)
MoveConstruct(o) ==
    /\ ~crashed
    /\ alive[o]
    /\ FreeSlots # {}
    /\ LET i == NewSlot
       IN  /\ alive' = [alive EXCEPT ![i] = TRUE]
           /\ max_size' = [max_size EXCEPT ![i] = max_size[o], ![o] = 0]
           /\ length' = [length EXCEPT ![i] = length[o], ![o] = 0]
           /\ buffer' = [buffer EXCEPT ![i] = buffer[o], ![o] = NULL]
           /\ ok' = TRUE
           /\ UNCHANGED <<heap, badFree, crashed>>

\* a copy assignment that does not take over other.length
CopyAssignKeepsLength(i, o) ==
    /\ ~crashed
    /\ alive[i] /\ alive[o]
    /\ IF i = o
       THEN /\ ok' = TRUE
            /\ UNCHANGED <<alive, max_size, length, buffer, heap, badFree, crashed>>
       ELSE /\ FreeAddrs(heap) # {}
            /\ LET a == NewAddr(heap)
                   h1 == NewArray(heap, a, max_size[o])
                   h2 == DeleteArray(h1, buffer[i])
               IN  /\ badFree' = (badFree \/ BadDelete(h1, buffer[i]))
                   /\ buffer' = [buffer EXCEPT ![i] = a]
                   /\ max_size' = [max_size EXCEPT ![i] = max_size[o]]
                   /\ UNCHANGED <<alive, length>>
                   /\ IF buffer[o] = NULL
                      THEN /\ heap' = h2
                           /\ crashed' = TRUE
                           /\ UNCHANGED ok
                      ELSE /\ heap' = [h2 EXCEPT ![a].data = StrCpy(@, h2[buffer[o]].data)]
                           /\ ok' = TRUE
                           /\ UNCHANGED crashed

\* a copy assignment that takes over the pointer instead of copying the array
CopyAssignShallow(i, o) ==
    /\ ~crashed
    /\ alive[i] /\ alive[o]
    /\ ok' = TRUE
    /\ IF i = o
       THEN UNCHANGED <<alive, max_size, length, buffer, heap, badFree, crashed>>
       ELSE /\ heap' = DeleteArray(heap, buffer[i])
            /\ badFree' = (badFree \/ BadDelete(heap, buffer[i]))
            /\ buffer' = [buffer EXCEPT ![i] = buffer[o]]
            /\ length' = [length EXCEPT ![i] = length[o]]
            /\ max_size' = [max_size EXCEPT ![i] = max_size[o]]
            /\ UNCHANGED <<alive, crashed>>

(***************************************************************************)
(* SimpleString& operator=(const SimpleString& other).  The members of     *)
(* *this are already overwritten when strcpy runs; with the null buffer of *)
(* a moved-from other, strcpy reads through a null pointer and the process *)
(* stops there.                                                            *)
(***************************************************************************)
CopyAssign(i, o) ==
    /\ ~crashed
    /\ alive[i] /\ alive[o]
    /\ IF i = o
       THEN /\ ok' = TRUE
            /\ UNCHANGED <<alive, max_size, length, buffer, heap, badFree, crashed>>
       ELSE /\ FreeAddrs(heap) # {}
            /\ LET a == NewAddr(heap)
                   h1 == NewArray(heap, a, max_size[o])
                   h2 == DeleteArray(h1, buffer[i])
               IN  /\ badFree' = (badFree \/ BadDelete(h1, buffer[i]))
                   /\ buffer' = [buffer EXCEPT ![i] = a]
                   /\ length' = [length EXCEPT ![i] = length[o]]
                   /\ max_size' = [max_size EXCEPT ![i] = max_size[o]]
                   /\ UNCHANGED alive
                   /\ IF buffer[o] = NULL
                      THEN /\ heap' = h2
                           /\ crashed' = TRUE
                           /\ UNCHANGED ok
                      ELSE /\ heap' = [h2 EXCEPT ![a].data = StrCpy(@, h2[buffer[o]].data)]
                           /\ ok' = TRUE
                           /\ UNCHANGED crashed

\* a move assignment that does not reset other.max_size
MoveAssignKeepsMaxSize(i, o) ==
    /\ ~crashed
    /\ alive[i] /\ alive[o]
    /\ ok' = TRUE
    /\ IF i = o
       THEN UNCHANGED <<alive, max_size, length, buffer, heap, badFree, crashed>>
       ELSE /\ heap' = DeleteArray(heap, buffer[i])
            /\ badFree' = (badFree \/ BadDelete(heap, buffer[i]))
            /\ buffer' = [buffer EXCEPT ![i] = buffer[o], ![o] = NULL]
            /\ length' = [length EXCEPT ![i] = length[o], ![o] = 0]
            /\ max_size' = [max_size EXCEPT ![i] = max_size[o]]
            /\ UNCHANGED <<alive, crashed>>

(***************************************************************************)
(* SimpleString& operator=(SimpleString&& other) noexcept                  *)
(***************************************************************************)
MoveAssign(i, o) ==
    /\ ~crashed
    /\ alive[i] /\ alive[o]
    /\ ok' = TRUE
    /\ IF i = o
       THEN UNCHANGED <<alive, max_size, length, buffer, heap, badFree, crashed>>
       ELSE /\ heap' = DeleteArray(heap, buffer[i])
            /\ badFree' = (badFree \/ BadDelete(heap, buffer[i]))
            /\ buffer' = [buffer EXCEPT ![i] = buffer[o], ![o] = NULL]
            /\ length' = [length EXCEPT ![i] = length[o], ![o] = 0]
            /\ max_size' = [max_size EXCEPT ![i] = max_size[o], ![o] = 0]
            /\ UNCHANGED <<alive, crashed>>

(***************************************************************************)
(* ~SimpleString().  Every SimpleString of the program is an automatic     *)
(* object (a local, a by-value parameter or a member of one), so the       *)
(* instances are destroyed in the reverse order of their construction.     *)
(* The members end with the object: the slot is cleared.                   *)
(***************************************************************************)
Destroy(i) ==
    /\ ~crashed
    /\ alive[i]
    /\ \A j \in Inst : alive[j] => j <= i
    /\ heap' = DeleteArray(heap, buffer[i])
    /\ badFree' = (badFree \/ BadDelete(heap, buffer[i]))
    /\ alive' = [alive EXCEPT ![i] = FALSE]
    /\ max_size' = [max_size EXCEPT ![i] = 0]
    /\ length' = [length EXCEPT ![i] = 0]
    /\ buffer' = [buffer EXCEPT ![i] = NULL]
    /\ ok' = TRUE
    /\ UNCHANGED crashed

\* an append_line that runs strncpy before the capacity check
AppendLineCopiesFirst(i, appendee) ==
    /\ ~crashed
    /\ alive[i]
    /\ buffer[i] # NULL
    /\ LET appendee_len == Len(appendee)
           b == buffer[i]
           d1 == StrNCpy(heap[b].data, length[i], appendee, max_size[i] - length[i])
       IN  IF Overflows(appendee_len, length[i], max_size[i])
           THEN /\ heap' = [heap EXCEPT ![b].data = d1]
                /\ ok' = FALSE
                /\ UNCHANGED <<alive, max_size, length, buffer, badFree, crashed>>
           ELSE LET l1 == length[i] + appendee_len
                    d2 == Store(d1, l1, NL)
                    l2 == l1 + 1
                    d3 == Store(d2, l2, NUL)
                IN  /\ ok' = TRUE
                    /\ length' = [length EXCEPT ![i] = l2]
                    /\ heap' = [heap EXCEPT ![b].data = d3]
                    /\ UNCHANGED <<alive, max_size, buffer, badFree, crashed>>

\* an append_line whose check counts the text only: the empty text passes
\* it on an instance without storage, and the write of the line end goes
\* through the null buffer, which stops the process
AppendLineTextOnlyCheck(i, appendee) ==
    /\ ~crashed
    /\ alive[i]
    /\ LET appendee_len == Len(appendee)
       IN  IF OverflowsTextOnly(appendee_len, length[i], max_size[i])
           THEN /\ ok' = FALSE
                /\ UNCHANGED <<alive, max_size, length, buffer, heap, badFree, crashed>>
           ELSE IF buffer[i] = NULL
           THEN /\ crashed' = TRUE
                /\ UNCHANGED <<alive, max_size, length, buffer, heap, badFree, ok>>
           ELSE LET b == buffer[i]
                    d1 == StrNCpy(heap[b].data, length[i], appendee, max_size[i] - length[i])
                    l1 == length[i] + appendee_len
                    d2 == Store(d1, l1, NL)
                    l2 == l1 + 1
                    d3 == Store(d2, l2, NUL)
                IN  /\ ok' = TRUE
                    /\ length' = [length EXCEPT ![i] = l2]
                    /\ heap' = [heap EXCEPT ![b].data = d3]
                    /\ UNCHANGED <<alive, max_size, buffer, badFree, crashed>>

(***************************************************************************)
(* bool append_line(const char* appendee)                                  *)
(***************************************************************************)
AppendLine(i, appendee) ==
    /\ ~crashed
    /\ alive[i]
    /\ LET appendee_len == Len(appendee)
       IN  IF Overflows(appendee_len, length[i], max_size[i])
           THEN /\ ok' = FALSE
                /\ UNCHANGED <<alive, max_size, length, buffer, heap, badFree, crashed>>
           ELSE LET b == buffer[i]
                    d1 == StrNCpy(heap[b].data, length[i], appendee, max_size[i] - length[i])
                    l1 == length[i] + appendee_len
                    d2 == Store(d1, l1, NL)
                    l2 == l1 + 1
                    d3 == Store(d2, l2, NUL)
                IN  /\ ok' = TRUE
                    /\ length' = [length EXCEPT ![i] = l2]
                    /\ heap' = [heap EXCEPT ![b].data = d3]
                    /\ UNCHANGED <<alive, max_size, buffer, badFree, crashed>>

(***************************************************************************)
(* Heap (src/ccc-7.cpp): ten buckets of 4096 bytes and one in-use flag per *)
(* bucket.  operator new and operator delete are replaced program-wide and *)
(* forward to the one Heap object, so every new-expression is a call of    *)
(* allocate and every delete-expression a call of free.  The object has    *)
(* static storage: all flags are false when the program starts.            *)
(*                                                                         *)
(* Two programs use the heap in the model: main of ccc-7.cpp, statement by *)
(* statement, and a client that calls allocate and free with any           *)
(* arguments in any order.                                                 *)
(***************************************************************************)
n_heap_buckets == 10
data_size == 4096

Buckets == 0..(n_heap_buckets - 1)

\* the address of heap.buckets, and of the data of bucket i
buckets_base == 65536
DataAddr(i) == buckets_base + i * data_size

BlockAddrs == {DataAddr(i) : i \in Buckets}

\* Pointers a client passes to free: null, the blocks, a pointer into each
\* block, and addresses before and behind the buckets.
Pointers ==
    {NULL} \cup BlockAddrs \cup {DataAddr(i) + 1 : i \in Buckets}
           \cup {buckets_base - 1, DataAddr(n_heap_buckets)}

\* Sizes a client asks for; main asks for sizeof(unsigned int) and
\* sizeof(char).
SizeofUInt == 4
SizeofChar == 1
Requests == {0, SizeofChar, SizeofUInt, data_size, data_size + 1}

VARIABLES
    bucket_used,    \* bucket_used[i]
    held,           \* held[i]: allocations of bucket i that allocate has
                    \* returned and that were not passed to free since
    ret,            \* what the last call of allocate returned (NULL: nothing)
    threw,          \* the last call ended by throwing std::bad_alloc
    streak,         \* how far the calls made so far follow the run "fill the
                    \* heap, release one block, allocate again": k in 0..11
                    \* after k calls allocate(bytes <= data_size) and nothing
                    \* else, 12 after one free of a block in use that followed
                    \* the 10th or 11th of them, 13 after one more
                    \* allocate(bytes <= data_size); -1 after any other calls
    last_freed,     \* the block the last call released, when that call was
                    \* free of the address of a bucket in use; else NULL
    main_pc,        \* the statement main executes next ("client": the other
                    \* program runs)
    breakfast,      \* main's pointers
    dinner,
    loops           \* times the body of main's while loop has run to its end

hvars == <<bucket_used, held, ret, threw, streak, last_freed,
           main_pc, breakfast, dinner, loops>>

HeapInit ==
    /\ bucket_used = [i \in Buckets |-> FALSE]
    /\ held = [i \in Buckets |-> 0]
    /\ ret = NULL
    /\ threw = FALSE
    /\ streak = 0
    /\ last_freed = NULL
    /\ main_pc = "breakfast"
    /\ breakfast = NULL
    /\ dinner = NULL
    /\ loops = 0

\* allocate's first check, mutated: a request of a whole bucket is refused
TooBigForBucketStrict(bytes) == bytes >= data_size

\* allocate's first check
TooBigForBucket(bytes) == bytes > data_size

\* a scan that stops one bucket early
FirstFreeShortScan(used) ==
    LET free == {i \in Buckets : ~used[i] /\ i < n_heap_buckets - 1}
    IN  IF free = {} THEN n_heap_buckets
        ELSE CHOOSE i \in free : \A j \in free : i <= j

\* a scan that takes the bucket after the first free one when there is one
FirstFreeSkipsOne(used) ==
    LET free == {i \in Buckets : ~used[i]}
        low == CHOOSE i \in free : \A j \in free : i <= j
    IN  IF free = {} THEN n_heap_buckets
        ELSE IF free = {low} THEN low
        ELSE CHOOSE i \in free \ {low} : \A j \in free \ {low} : i <= j

\* allocate's loop: the index at which the scan stops, n_heap_buckets when it
\* finds no free bucket
FirstFree(used) ==
    LET free == {i \in Buckets : ~used[i]}
    IN  IF free = {} THEN n_heap_buckets
        ELSE CHOOSE i \in free : \A j \in free : i <= j

AllocateThrows(used, bytes) ==
    TooBigForBucket(bytes) \/ FirstFree(used) = n_heap_buckets

\* free's loop: the bucket whose data address is p, n_heap_buckets when
\* there is none
BucketOf(p) ==
    IF p \in BlockAddrs
    THEN CHOOSE i \in Buckets : DataAddr(i) = p
    ELSE n_heap_buckets

\* streak after a call of allocate and after a call of free
StreakAfterAllocate(bytes) ==
    IF TooBigForBucket(bytes) THEN -1
    ELSE IF streak \in 0..n_heap_buckets THEN streak + 1
    ELSE IF streak = n_heap_buckets + 2 THEN n_heap_buckets + 3
    ELSE -1

StreakAfterFree(p) ==
    IF /\ streak \in {n_heap_buckets, n_heap_buckets + 1}
       /\ BucketOf(p) \in Buckets
       /\ bucket_used[BucketOf(p)]
    THEN n_heap_buckets + 2
    ELSE -1

\* a scan that ignores the flags and always takes bucket 0
HeapAllocateIgnoresFlags(bytes) ==
    /\ bucket_used' = [bucket_used EXCEPT ![0] = TRUE]
    /\ held' = [held EXCEPT ![0] = IF @ < 2 THEN @ + 1 ELSE @]
    /\ ret' = DataAddr(0)
    /\ threw' = FALSE
    /\ streak' = StreakAfterAllocate(bytes)
    /\ last_freed' = NULL

(***************************************************************************)
(* void* Heap::allocate(size_t bytes)                                      *)
(***************************************************************************)
HeapAllocate(bytes) ==
    LET i == FirstFree(bucket_used)
    IN  /\ IF AllocateThrows(bucket_used, bytes)
           THEN /\ ret' = NULL
                /\ threw' = TRUE
                /\ UNCHANGED <<bucket_used, held>>
           ELSE /\ bucket_used' = [bucket_used EXCEPT ![i] = TRUE]
                /\ ret' = DataAddr(i)
                /\ threw' = FALSE
                /\ held' = [held EXCEPT ![i] = @ + 1]
        /\ streak' = StreakAfterAllocate(bytes)
        /\ last_freed' = NULL

\* a free that clears the flag of the bucket p points into
HeapFreeInterior(p) ==
    LET i == IF p >= buckets_base /\ p < DataAddr(n_heap_buckets)
             THEN (p - buckets_base) \div data_size
             ELSE n_heap_buckets
    IN  /\ IF i \in Buckets
           THEN /\ bucket_used' = [bucket_used EXCEPT ![i] = FALSE]
                /\ held' = [held EXCEPT ![i] = IF @ > 0 THEN @ - 1 ELSE 0]
                /\ last_freed' = IF bucket_used[i] THEN DataAddr(i) ELSE NULL
           ELSE /\ UNCHANGED <<bucket_used, held>>
                /\ last_freed' = NULL
        /\ ret' = NULL
        /\ threw' = FALSE
        /\ streak' = StreakAfterFree(p)

\* a free that does nothing
HeapFreeKeepsFlag(p) ==
    /\ UNCHANGED <<bucket_used>>
    /\ held' = IF BucketOf(p) \in Buckets
               THEN [held EXCEPT ![BucketOf(p)] = IF @ > 0 THEN @ - 1 ELSE 0]
               ELSE held
    /\ last_freed' = NULL
    /\ ret' = NULL
    /\ threw' = FALSE
    /\ streak' = StreakAfterFree(p)

(***************************************************************************)
(* void Heap::free(void* p)                                                *)
(***************************************************************************)
HeapFree(p) ==
    LET i == BucketOf(p)
    IN  /\ IF i \in Buckets
           THEN /\ bucket_used' = [bucket_used EXCEPT ![i] = FALSE]
                /\ held' = [held EXCEPT ![i] = IF @ > 0 THEN @ - 1 ELSE 0]
                /\ last_freed' = IF bucket_used[i] THEN p ELSE NULL
           ELSE /\ UNCHANGED <<bucket_used, held>>
                /\ last_freed' = NULL
        /\ ret' = NULL
        /\ threw' = FALSE
        /\ streak' = StreakAfterFree(p)

(***************************************************************************)
(* The client: any call at any time.                                       *)
(***************************************************************************)
IsClient == main_pc \in {"breakfast", "client"}

Allocate(bytes) ==
    /\ IsClient
    /\ HeapAllocate(bytes)
    /\ main_pc' = "client"
    /\ UNCHANGED <<breakfast, dinner, loops>>

Free(p) ==
    /\ IsClient
    /\ HeapFree(p)
    /\ main_pc' = "client"
    /\ UNCHANGED <<breakfast, dinner, loops>>

(***************************************************************************)
(* main of ccc-7.cpp, from its first new-expression on.                    *)
(***************************************************************************)
\* auto breakfast = new unsigned int { 0xC0FFEE };
MainNewBreakfast ==
    /\ main_pc = "breakfast"
    /\ HeapAllocate(SizeofUInt)
    /\ breakfast' = ret'
    /\ main_pc' = IF threw' THEN "terminated" ELSE "dinner"
    /\ UNCHANGED <<dinner, loops>>

\* auto dinner = new unsigned int { 0xDEADBEEF };
MainNewDinner ==
    /\ main_pc = "dinner"
    /\ HeapAllocate(SizeofUInt)
    /\ dinner' = ret'
    /\ main_pc' = IF threw' THEN "terminated" ELSE "delete_breakfast"
    /\ UNCHANGED <<breakfast, loops>>

\* delete breakfast;
MainDeleteBreakfast ==
    /\ main_pc = "delete_breakfast"
    /\ HeapFree(breakfast)
    /\ main_pc' = "delete_dinner"
    /\ UNCHANGED <<breakfast, dinner, loops>>

\* a main that never deletes dinner
MainDeleteDinnerSkipped ==
    /\ main_pc = "delete_dinner"
    /\ HeapFree(NULL)
    /\ main_pc' = "loop"
    /\ UNCHANGED <<breakfast, dinner, loops>>

\* delete dinner;
MainDeleteDinner ==
    /\ main_pc = "delete_dinner"
    /\ HeapFree(dinner)
    /\ main_pc' = "loop"
    /\ UNCHANGED <<breakfast, dinner, loops>>

\* while(true) { auto thing = new char; printf(...); }
\* One run of the body: it ends at the printf, or leaves the try block with
\* the exception that new throws.
MainLoop ==
    /\ main_pc = "loop"
    /\ HeapAllocate(SizeofChar)
    /\ IF threw'
       THEN main_pc' = "caught" /\ loops' = loops
       ELSE main_pc' = "loop" /\ loops' = loops + 1
    /\ UNCHANGED <<breakfast, dinner>>

\* catch(const std::bad_alloc&) { printf(...); }
MainCatch ==
    /\ main_pc = "caught"
    /\ main_pc' = "done"
    /\ UNCHANGED <<bucket_used, held, ret, threw, streak, last_freed,
                   breakfast, dinner, loops>>

(***************************************************************************)
(* SimpleStringOwner (src/ccc-4.cpp) and the try block of main: owner a,   *)
(* then fn_b with owner b, which calls fn_c with owner c, then owner d.    *)
(* An owner holds a SimpleString of capacity 10 and appends the text it is *)
(* constructed with; its constructor throws when the text does not fit.    *)
(* The texts are inputs of the model (only their lengths matter to the     *)
(* code); main's texts are one choice of them.                             *)
(***************************************************************************)
Owners == {"a", "b", "c", "d"}

\* : string { 10 }
OwnerCapacity == 10

\* strlen of the texts main, fn_b and fn_c pass: "aaaaaa", "bbbbbbbb",
\* "cccccccccccccc", "dddddd"
MainStr == [a |-> 6, b |-> 8, c |-> 14, d |-> 6]

OwnerTextLens == {MainStr[n] : n \in Owners}

VARIABLES
    str,        \* str[n]: strlen of the text owner n is constructed with
    o_pc,       \* the statement executed next
    o_state,    \* o_state[n]: "none", "constructed", "failed" (its
                \* constructor threw) or "destroyed"
    o_length,   \* o_length[n]: string.length of owner n
    o_allocs,   \* o_allocs[n]: arrays allocated for the string of owner n
    o_frees,    \* o_frees[n]: times that array was passed to delete[]
    stack,      \* the constructed owners whose scope has not ended, oldest
                \* first
    log         \* what has happened, in order: <<"ctor", n>> a constructor
                \* returned, <<"throw", n>> a constructor threw,
                \* <<"dtor", n>> the body of a destructor ran,
                \* <<"catch">> the handler was entered

ovars == <<str, o_pc, o_state, o_length, o_allocs, o_frees, stack, log>>

OwnerInit ==
    /\ str \in [Owners -> OwnerTextLens]
    /\ o_pc = "main_a"
    /\ o_state = [n \in Owners |-> "none"]
    /\ o_length = [n \in Owners |-> 0]
    /\ o_allocs = [n \in Owners |-> 0]
    /\ o_frees = [n \in Owners |-> 0]
    /\ stack = <<>>
    /\ log = <<>>

\* the statement that constructs owner n, and the one that follows it
CtorAt(n) ==
    CASE n = "a" -> "main_a"
      [] n = "b" -> "fn_b_b"
      [] n = "c" -> "fn_c_c"
      [] n = "d" -> "main_d"

AfterCtor(n) ==
    CASE n = "a" -> "fn_b_b"        \* fn_b() is called
      [] n = "b" -> "fn_c_c"        \* fn_c() is called
      [] n = "c" -> "fn_c_end"
      [] n = "d" -> "try_end"

\* the statement that follows the end of the scope of owner n
AfterScope(n) ==
    CASE n = "c" -> "fn_b_end"      \* fn_c returns into fn_b
      [] n = "b" -> "main_d"        \* fn_b returns into main
      [] n = "d" -> "try_end"       \* a is destroyed after d
      [] n = "a" -> "after"         \* the try block is left

\* a constructor whose exception leaves the array of the string behind
ConstructOwnerLeaks(n) ==
    /\ o_pc = CtorAt(n)
    /\ o_allocs' = [o_allocs EXCEPT ![n] = @ + 1]
    /\ IF Overflows(str[n], 0, OwnerCapacity)
       THEN /\ o_state' = [o_state EXCEPT ![n] = "failed"]
            /\ o_frees' = o_frees
            /\ log' = Append(log, <<"throw", n>>)
            /\ o_pc' = "unwind"
            /\ UNCHANGED <<o_length, stack>>
       ELSE /\ o_state' = [o_state EXCEPT ![n] = "constructed"]
            /\ o_length' = [o_length EXCEPT ![n] = str[n] + 1]
            /\ stack' = Append(stack, n)
            /\ log' = Append(log, <<"ctor", n>>)
            /\ o_pc' = AfterCtor(n)
            /\ UNCHANGED o_frees
    /\ UNCHANGED str

(***************************************************************************)
(* SimpleStringOwner(const char* str) : string { 10 }                      *)
(* The member is constructed first (one array is allocated), then the body *)
(* appends str.  When append_line returns false the body throws: the       *)
(* member, which is complete, is destroyed (its array is released), the    *)
(* owner never existed and its destructor will not run.                    *)
(***************************************************************************)
ConstructOwner(n) ==
    /\ o_pc = CtorAt(n)
    /\ o_allocs' = [o_allocs EXCEPT ![n] = @ + 1]
    /\ IF Overflows(str[n], 0, OwnerCapacity)
       THEN /\ o_state' = [o_state EXCEPT ![n] = "failed"]
            /\ o_frees' = [o_frees EXCEPT ![n] = @ + 1]
            /\ log' = Append(log, <<"throw", n>>)
            /\ o_pc' = "unwind"
            /\ UNCHANGED <<o_length, stack>>
       ELSE /\ o_state' = [o_state EXCEPT ![n] = "constructed"]
            /\ o_length' = [o_length EXCEPT ![n] = str[n] + 1]
            /\ stack' = Append(stack, n)
            /\ log' = Append(log, <<"ctor", n>>)
            /\ o_pc' = AfterCtor(n)
            /\ UNCHANGED o_frees
    /\ UNCHANGED str

(***************************************************************************)
(* ~SimpleStringOwner(), then ~SimpleString() of the member: the body      *)
(* prints, the member releases its array.                                  *)
(***************************************************************************)
DestroyOwner(n) ==
    /\ o_state' = [o_state EXCEPT ![n] = "destroyed"]
    /\ o_frees' = [o_frees EXCEPT ![n] = @ + 1]
    /\ log' = Append(log, <<"dtor", n>>)
    /\ UNCHANGED <<str, o_length, o_allocs>>

\* The end of a scope that was reached normally: the closing brace of fn_c,
\* of fn_b and of the try block.  The owner constructed last is destroyed.
ScopeEnd ==
    /\ o_pc \in {"fn_c_end", "fn_b_end", "try_end"}
    /\ stack # <<>>
    /\ LET n == stack[Len(stack)]
       IN  /\ DestroyOwner(n)
           /\ stack' = SubSeq(stack, 1, Len(stack) - 1)
           /\ o_pc' = AfterScope(n)

\* an unwinding that destroys the oldest owner first
UnwindOldestFirst ==
    /\ o_pc = "unwind"
    /\ stack # <<>>
    /\ DestroyOwner(stack[1])
    /\ stack' = Tail(stack)
    /\ o_pc' = "unwind"

\* The exception leaves a scope: fn_c has no object left, fn_b has b, the
\* try block has a (and d).  The owner constructed last is destroyed.
Unwind ==
    /\ o_pc = "unwind"
    /\ stack # <<>>
    /\ DestroyOwner(stack[Len(stack)])
    /\ stack' = SubSeq(stack, 1, Len(stack) - 1)
    /\ o_pc' = "unwind"

\* catch(const std::runtime_error& e): entered when the try block is left
Catch ==
    /\ o_pc = "unwind"
    /\ stack = <<>>
    /\ log' = Append(log, <<"catch">>)
    /\ o_pc' = "handler"
    /\ UNCHANGED <<str, o_state, o_length, o_allocs, o_frees, stack>>

\* printf("Exception: %s\n", e.what()); the handler ends
Handler ==
    /\ o_pc = "handler"
    /\ o_pc' = "after"
    /\ UNCHANGED <<str, o_state, o_length, o_allocs, o_frees, stack, log>>

(***************************************************************************)
(* The rodeos (src/ccc-19_mutex.cpp).  Each rodeo starts two tasks,        *)
(* eat_cans and deposit_cans, that each change tin_cans_available          *)
(* iterations times, waits for both and prints the counter.  main calls    *)
(* goat_rodeo, raii_rodeo, atomic_rodeo and conditional_rodeo three times  *)
(* each.  A change of the plain int is a load and a store, two steps that  *)
(* another task can come between; a change of the atomic_int is one step.  *)
(* A waiting task can wake without a notification.                         *)
(***************************************************************************)
Iterations == 2     \* iterations (1'000'000 in the code)
MaxSpurious == 1    \* wake-ups without notification in one call

Tasks == {"eat", "deposit"}

\* main: the calls, in order
MainCalls ==
    << "goat", "goat", "goat", "raii", "raii", "raii",
       "atomic", "atomic", "atomic",
       "conditional", "conditional", "conditional" >>

VARIABLES
    r_call,     \* the index in MainCalls of the call that runs (one more than
                \* their number: main has returned)
    r_pc,       \* r_pc[t]: where task t is
    r_i,        \* r_i[t]: the loop counter i of task t
    r_reg,      \* r_reg[t]: the value task t has loaded from the counter
    tin_cans_available,
    mutex,      \* the task that holds tin_can_mutex (m), or "free"
    waiting,    \* the tasks blocked in cv.wait
    spurious,   \* wake-ups without notification so far in this call
    early_notify,   \* notify_all was called before eat_cans had locked m
    printed     \* the values printed so far, one per finished call

rvars == <<r_call, r_pc, r_i, r_reg, tin_cans_available, mutex, waiting,
           spurious, early_notify, printed>>

\* the rodeo that runs
Rodeo == IF r_call \in 1..Len(MainCalls) THEN MainCalls[r_call] ELSE "none"

\* where the tasks of a rodeo start
StartPc(rodeo) ==
    [t \in Tasks |-> CASE rodeo = "conditional" -> "acquire"
                       [] rodeo = "none" -> "done"
                       [] OTHER -> "loop"]

RodeoInit ==
    /\ r_call = 1
    /\ r_pc = StartPc(MainCalls[1])
    /\ r_i = [t \in Tasks |-> 0]
    /\ r_reg = [t \in Tasks |-> 0]
    /\ tin_cans_available = 0
    /\ mutex = "free"
    /\ waiting = {}
    /\ spurious = 0
    /\ early_notify = FALSE
    /\ printed = <<>>

\* what a task does to the counter
Delta(t) == IF t = "eat" THEN -1 ELSE 1

\* a lock that is taken whether or not another task holds the mutex
CanLockAlways(t) == TRUE

\* mutex::lock returns only when no task holds the mutex
CanLock(t) == mutex = "free"

\* a wait without a condition: any wake-up ends it
CansReadyAlways == TRUE

\* [&] { return tin_cans_available == 1'000'000; }
CansReady == tin_cans_available = Iterations

\* i < iterations fails: the task's loop and the task end
TaskExit(t) ==
    /\ Rodeo \in {"goat", "raii", "atomic"}
    /\ r_pc[t] = "loop"
    /\ r_i[t] = Iterations
    /\ r_pc' = [r_pc EXCEPT ![t] = "done"]
    /\ UNCHANGED <<r_call, r_i, r_reg, tin_cans_available, mutex, waiting,
                   spurious, early_notify, printed>>

\* tin_can_mutex.lock();  /  lock_guard<mutex> guard { tin_can_mutex };
TaskLock(t) ==
    /\ Rodeo \in {"goat", "raii"}
    /\ r_pc[t] = "loop"
    /\ r_i[t] < Iterations
    /\ CanLock(t)
    /\ mutex' = t
    /\ r_pc' = [r_pc EXCEPT ![t] = "load"]
    /\ UNCHANGED <<r_call, r_i, r_reg, tin_cans_available, waiting,
                   spurious, early_notify, printed>>

\* tin_cans_available-- / ++ on the int, first half: the value is read
TaskLoad(t) ==
    /\ r_pc[t] = "load"
    /\ r_reg' = [r_reg EXCEPT ![t] = tin_cans_available]
    /\ r_pc' = [r_pc EXCEPT ![t] = "store"]
    /\ UNCHANGED <<r_call, r_i, tin_cans_available, mutex, waiting,
                   spurious, early_notify, printed>>

\* second half: the changed value is written.  In goat_rodeo and raii_rodeo
\* the unlock follows; in conditional_rodeo the loop goes on (i++) until
\* i < iterations fails, then deposit_cans notifies and eat_cans ends.
TaskStore(t) ==
    /\ r_pc[t] = "store"
    /\ tin_cans_available' = r_reg[t] + Delta(t)
    /\ r_i' = [r_i EXCEPT ![t] = @ + 1]
    /\ r_pc' = [r_pc EXCEPT ![t] =
                    IF Rodeo # "conditional" THEN "unlock"
                    ELSE IF r_i[t] + 1 < Iterations THEN "load"
                    ELSE IF t = "deposit" THEN "notify"
                    ELSE "unlock"]
    /\ UNCHANGED <<r_call, r_reg, mutex, waiting, spurious, early_notify,
                   printed>>

\* tin_can_mutex.unlock();  /  the end of the scope of guard or lock
TaskUnlock(t) ==
    /\ r_pc[t] = "unlock"
    /\ mutex' = "free"
    /\ r_pc' = [r_pc EXCEPT ![t] =
                    IF Rodeo = "conditional" THEN "done" ELSE "loop"]
    /\ UNCHANGED <<r_call, r_i, r_reg, tin_cans_available, waiting,
                   spurious, early_notify, printed>>

\* atomic_rodeo: tin_cans_available-- / ++ on the atomic_int; i++
AtomicStep(t) ==
    /\ Rodeo = "atomic"
    /\ r_pc[t] = "loop"
    /\ r_i[t] < Iterations
    /\ tin_cans_available' = tin_cans_available + Delta(t)
    /\ r_i' = [r_i EXCEPT ![t] = @ + 1]
    /\ UNCHANGED <<r_call, r_pc, r_reg, mutex, waiting, spurious,
                   early_notify, printed>>

\* conditional_rodeo: unique_lock<mutex> lock{ m } / scoped_lock<mutex>
\* lock{ m }, and the lock taken again by a task that was woken in cv.wait
Acquire(t) ==
    /\ Rodeo = "conditional"
    /\ r_pc[t] = "acquire"
    /\ CanLock(t)
    /\ mutex' = t
    /\ r_pc' = [r_pc EXCEPT ![t] = IF t = "eat" THEN "wait" ELSE "load"]
    /\ UNCHANGED <<r_call, r_i, r_reg, tin_cans_available, waiting,
                   spurious, early_notify, printed>>

\* cv.wait(lock, pred): with the mutex held the condition is tested; when it
\* holds wait returns, else the mutex is released and the task blocks
WaitCheck ==
    /\ Rodeo = "conditional"
    /\ r_pc["eat"] = "wait"
    /\ IF CansReady
       THEN /\ r_pc' = [r_pc EXCEPT !["eat"] = "load"]
            /\ UNCHANGED <<mutex, waiting>>
       ELSE /\ r_pc' = [r_pc EXCEPT !["eat"] = "blocked"]
            /\ mutex' = "free"
            /\ waiting' = waiting \cup {"eat"}
    /\ UNCHANGED <<r_call, r_i, r_reg, tin_cans_available, spurious,
                   early_notify, printed>>

\* a notify_all that wakes nobody
NotifyAllWakesNobody ==
    /\ Rodeo = "conditional"
    /\ r_pc["deposit"] = "notify"
    /\ r_pc' = [r_pc EXCEPT !["deposit"] = "unlock"]
    /\ early_notify' = (r_pc["eat"] = "acquire" /\ spurious = 0)
    /\ UNCHANGED <<r_call, r_i, r_reg, tin_cans_available, mutex, waiting,
                   spurious, printed>>

\* cv.notify_all(): every blocked task goes on to take the mutex again
NotifyAll ==
    /\ Rodeo = "conditional"
    /\ r_pc["deposit"] = "notify"
    /\ r_pc' = [t \in Tasks |->
                    IF t = "deposit" THEN "unlock"
                    ELSE IF t \in waiting THEN "acquire"
                    ELSE r_pc[t]]
    /\ waiting' = {}
    /\ early_notify' = (r_pc["eat"] = "acquire" /\ spurious = 0)
    /\ UNCHANGED <<r_call, r_i, r_reg, tin_cans_available, mutex, spurious,
                   printed>>

\* a blocked task wakes though nobody notified
SpuriousWake ==
    /\ Rodeo = "conditional"
    /\ "eat" \in waiting
    /\ spurious < MaxSpurious
    /\ spurious' = spurious + 1
    /\ waiting' = waiting \ {"eat"}
    /\ r_pc' = [r_pc EXCEPT !["eat"] = "acquire"]
    /\ UNCHANGED <<r_call, r_i, r_reg, tin_cans_available, mutex,
                   early_notify, printed>>

\* eat_cans.get(); deposit_cans.get(); cout << ... ; the rodeo returns and
\* main makes its next call, with new locals
JoinAndPrint ==
    /\ r_call \in 1..Len(MainCalls)
    /\ \A t \in Tasks : r_pc[t] = "done"
    /\ printed' = Append(printed, tin_cans_available)
    /\ r_call' = r_call + 1
    /\ r_pc' = StartPc(IF r_call < Len(MainCalls)
                       THEN MainCalls[r_call + 1] ELSE "none")
    /\ r_i' = [t \in Tasks |-> 0]
    /\ r_reg' = [t \in Tasks |-> 0]
    /\ tin_cans_available' = 0
    /\ mutex' = "free"
    /\ waiting' = {}
    /\ spurious' = 0
    /\ early_notify' = FALSE

\* the steps of one task
TaskStep(t) ==
    \/ TaskExit(t)
    \/ TaskLock(t)
    \/ TaskLoad(t)
    \/ TaskStore(t)
    \/ TaskUnlock(t)
    \/ AtomicStep(t)
    \/ Acquire(t)
    \/ (t = "eat" /\ WaitCheck)
    \/ (t = "deposit" /\ NotifyAll)

(***************************************************************************)
(* CheckedInteger (src/ccc-7.cpp): an unsigned int that cannot be changed, *)
(* and an operator+ that throws when the sum wraps.  unsigned int has      *)
(* UIntBits bits in the model (32 in the code); its arithmetic is modulo   *)
(* 2^UIntBits.                                                             *)
(***************************************************************************)
UIntBits == 4

RECURSIVE Pow2(_)
Pow2(n) == IF n = 0 THEN 1 ELSE 2 * Pow2(n - 1)

\* std::numeric_limits<unsigned int>::max()
UIntMax == Pow2(UIntBits) - 1

UInts == 0..UIntMax

\* value + other in unsigned int
UIntAdd(a, b) == (a + b) % Pow2(UIntBits)

VARIABLES
    c_pc,       \* "start", "constructed" (a exists), "added" (a + other ran)
    c_value,    \* a.value
    c_other,    \* the right operand of the last a + other
    c_result,   \* the value of the CheckedInteger the last a + other returned
    c_threw     \* the last a + other threw std::overflow_error

cvars == <<c_pc, c_value, c_other, c_result, c_threw>>

CheckedInit ==
    /\ c_pc = "start"
    /\ c_value = 0
    /\ c_other = 0
    /\ c_result = 0
    /\ c_threw = FALSE

\* CheckedInteger(unsigned int value) : value { value } {}
CheckedConstruct(v) ==
    /\ c_pc = "start"
    /\ c_pc' = "constructed"
    /\ c_value' = v
    /\ UNCHANGED <<c_other, c_result, c_threw>>

\* a test that also takes a sum equal to the left operand for wrapped
WrappedOrEqual(result_value, value) == result_value <= value

\* if (result.value < value)
Wrapped(result_value, value) == result_value < value

\* CheckedInteger operator+(unsigned int other) const
CheckedAdd(other) ==
    /\ c_pc \in {"constructed", "added"}
    /\ c_pc' = "added"
    /\ c_other' = other
    /\ LET result == UIntAdd(c_value, other)
       IN  IF Wrapped(result, c_value)
           THEN c_threw' = TRUE /\ c_result' = 0
           ELSE c_threw' = FALSE /\ c_result' = result
    /\ UNCHANGED c_value

(***************************************************************************)
(* Factorial (src/ccc-10.cpp), one step per call and per return.  The      *)
(* product is an int: a product that does not fit has undefined behaviour, *)
(* and the model then lets the multiplication yield any of a few ints.     *)
(***************************************************************************)
MaxNeg == 2         \* arguments from -MaxNeg
MaxArg == 13        \* to MaxArg

INT_MAX == 2147483647

FactArgs == (0 - MaxNeg)..MaxArg

\* what a multiplication that overflows may yield
OverflowOutcomes == {-1, 0, 1932053504}

VARIABLES
    f_pc,       \* "idle", "calling" (calls go down), "returning" (returns
                \* come up), "returned", "thrown"
    f_arg,      \* the argument of the outermost call
    f_number,   \* number in the call that runs
    f_value,    \* what the call that returned last has returned
    f_undefined \* a multiplication has overflowed

fvars == <<f_pc, f_arg, f_number, f_value, f_undefined>>

FactorialInit ==
    /\ f_pc = "idle"
    /\ f_arg = 0
    /\ f_number = 0
    /\ f_value = 0
    /\ f_undefined = FALSE

\* a check that rejects 0 as well
TooLowOrZero(number) == number <= 0

\* if (number < 0)
TooLow(number) == number < 0

\* a * b does not fit an int
MulOverflows(a, b) ==
    b > 0 /\ (a > INT_MAX \div b \/ a < 0 - (INT_MAX \div b))

\* Factorial(n) is called from outside
FactorialCall(n) ==
    /\ f_pc \in {"idle", "returned", "thrown"}
    /\ f_arg' = n
    /\ f_number' = n
    /\ f_value' = 0
    /\ f_undefined' = FALSE
    /\ f_pc' = "calling"

\* The call that runs: it throws, returns 1, or calls Factorial(number-1).
FactorialEnter ==
    /\ f_pc = "calling"
    /\ IF TooLow(f_number)
       THEN /\ f_pc' = "thrown"
            /\ UNCHANGED <<f_number, f_value>>
       ELSE IF f_number <= 1
       THEN /\ f_value' = 1
            /\ f_pc' = IF f_number = f_arg THEN "returned" ELSE "returning"
            /\ UNCHANGED f_number
       ELSE /\ f_number' = f_number - 1
            /\ UNCHANGED <<f_pc, f_value>>
    /\ UNCHANGED <<f_arg, f_undefined>>

\* Factorial(number-1) has returned to the call with number = f_number + 1,
\* which returns the product
FactorialReturn ==
    /\ f_pc = "returning"
    /\ LET number == f_number + 1
       IN  /\ f_number' = number
           /\ IF MulOverflows(f_value, number)
              THEN f_value' \in OverflowOutcomes /\ f_undefined' = TRUE
              ELSE f_value' = f_value * number /\ UNCHANGED f_undefined
           /\ f_pc' = IF number = f_arg THEN "returned" ELSE "returning"
    /\ UNCHANGED f_arg

(***************************************************************************)
(* SimpleUniquePointer<Tracer> (src/ccc-6.cpp): a wrapper that deletes the *)
(* object it points to when it is destroyed, and that can be moved but not *)
(* copied.  Two programs use it in the model: main of ccc-6.cpp, statement *)
(* by statement, and a client that wraps new objects, move-constructs and  *)
(* destroys wrappers in any order.                                         *)
(***************************************************************************)
NumPtrs == 3        \* wrappers that can exist at the same time
NumTracers == 2     \* objects the client allocates

Ptrs == 1..NumPtrs
Tracers == 1..NumTracers

VARIABLES
    u_alive,    \* u_alive[s]: wrapper s is constructed and not destroyed
    pointer,    \* pointer[s]: NULL or the object wrapper s points to
    t_made,     \* t_made[x]: object x was allocated (new Tracer)
    t_deletes,  \* t_deletes[x]: times object x was deleted
    u_got,      \* what the last get() returned
    u_pc,       \* the statement main executes next ("client": the other
                \* program runs)
    ptr_a,      \* main's wrapper, and consumer's parameter (0: not there)
    consumer_ptr

uvars == <<u_alive, pointer, t_made, t_deletes, u_got, u_pc, ptr_a, consumer_ptr>>

UniqueInit ==
    /\ u_alive = [s \in Ptrs |-> FALSE]
    /\ pointer = [s \in Ptrs |-> NULL]
    /\ t_made = [x \in Tracers |-> FALSE]
    /\ t_deletes = [x \in Tracers |-> 0]
    /\ u_got = NULL
    /\ u_pc = "new"
    /\ ptr_a = 0
    /\ consumer_ptr = 0

FreePtrs == {s \in Ptrs : ~u_alive[s]}
NewPtr == CHOOSE s \in FreePtrs : \A r \in FreePtrs : s <= r

NewTracers == {x \in Tracers : ~t_made[x]}
NewTracer == CHOOSE x \in NewTracers : \A y \in NewTracers : x <= y

\* SimpleUniquePointer(T* pointer), given a new Tracer
Wrap ==
    /\ FreePtrs # {} /\ NewTracers # {}
    /\ u_alive' = [u_alive EXCEPT ![NewPtr] = TRUE]
    /\ pointer' = [pointer EXCEPT ![NewPtr] = NewTracer]
    /\ t_made' = [t_made EXCEPT ![NewTracer] = TRUE]
    /\ UNCHANGED <<t_deletes, u_got>>

\* a move constructor that leaves the pointer in the source as well
UMoveConstructKeepsSource(other) ==
    /\ u_alive[other]
    /\ FreePtrs # {}
    /\ u_alive' = [u_alive EXCEPT ![NewPtr] = TRUE]
    /\ pointer' = [pointer EXCEPT ![NewPtr] = pointer[other]]
    /\ UNCHANGED <<t_made, t_deletes, u_got>>

\* SimpleUniquePointer(SimpleUniquePointer&& other) noexcept
UMoveConstruct(other) ==
    /\ u_alive[other]
    /\ FreePtrs # {}
    /\ u_alive' = [u_alive EXCEPT ![NewPtr] = TRUE]
    /\ pointer' = [pointer EXCEPT ![NewPtr] = pointer[other], ![other] = NULL]
    /\ UNCHANGED <<t_made, t_deletes, u_got>>

\* ~SimpleUniquePointer(): if (pointer) delete pointer;
UDestroy(s) ==
    /\ u_alive[s]
    /\ u_alive' = [u_alive EXCEPT ![s] = FALSE]
    /\ pointer' = [pointer EXCEPT ![s] = NULL]
    /\ t_deletes' = IF pointer[s] # NULL
                    THEN [t_deletes EXCEPT ![pointer[s]] = @ + 1]
                    ELSE t_deletes
    /\ UNCHANGED <<t_made, u_got>>

\* T* get()
UGet(s) ==
    /\ u_alive[s]
    /\ u_got' = pointer[s]
    /\ UNCHANGED <<u_alive, pointer, t_made, t_deletes>>

\* the client
IsUClient == u_pc \in {"new", "client"}

ClientWrap ==
    /\ IsUClient /\ Wrap
    /\ u_pc' = "client" /\ UNCHANGED <<ptr_a, consumer_ptr>>

ClientMove(other) ==
    /\ IsUClient /\ UMoveConstruct(other)
    /\ u_pc' = "client" /\ UNCHANGED <<ptr_a, consumer_ptr>>

ClientDestroy(s) ==
    /\ IsUClient /\ UDestroy(s)
    /\ u_pc' = "client" /\ UNCHANGED <<ptr_a, consumer_ptr>>

ClientGet(s) ==
    /\ IsUClient /\ UGet(s)
    /\ u_pc' = "client" /\ UNCHANGED <<ptr_a, consumer_ptr>>

\* main: auto ptr_a = SimpleUniquePointer<Tracer>{new Tracer("ptr_a")};
UMainNew ==
    /\ u_pc = "new"
    /\ Wrap
    /\ ptr_a' = NewPtr
    /\ u_pc' = "print1"
    /\ UNCHANGED consumer_ptr

\* main: printf("(main) ptr_a: 0x%p\n", ptr_a.get()); both times
UMainPrint ==
    /\ u_pc \in {"print1", "print2"}
    /\ UGet(ptr_a)
    /\ u_pc' = IF u_pc = "print1" THEN "call" ELSE "end"
    /\ UNCHANGED <<ptr_a, consumer_ptr>>

\* main: consumer(std::move(ptr_a)); the parameter is move-constructed
UMainCall ==
    /\ u_pc = "call"
    /\ UMoveConstruct(ptr_a)
    /\ consumer_ptr' = NewPtr
    /\ u_pc' = "cons_print"
    /\ UNCHANGED ptr_a

\* consumer: printf("(cons) consumer_ptr: 0x%p\n", consumer_ptr.get());
UConsumerPrint ==
    /\ u_pc = "cons_print"
    /\ UGet(consumer_ptr)
    /\ u_pc' = "cons_return"
    /\ UNCHANGED <<ptr_a, consumer_ptr>>

\* consumer returns: its parameter is destroyed
UConsumerReturn ==
    /\ u_pc = "cons_return"
    /\ UDestroy(consumer_ptr)
    /\ consumer_ptr' = 0
    /\ u_pc' = "print2"
    /\ UNCHANGED ptr_a

\* main returns: ptr_a is destroyed
UMainEnd ==
    /\ u_pc = "end"
    /\ UDestroy(ptr_a)
    /\ ptr_a' = 0
    /\ u_pc' = "done"
    /\ UNCHANGED consumer_ptr

(***************************************************************************)
(* Element (src/ccc-3.cpp): the elements of a doubly linked list.  The     *)
(* model has NumElems elements, all constructed with null links, and calls *)
(* insert_after and insert_before on any of them with any of them.         *)
(* insert_before reads previous->next: on an element without predecessor   *)
(* that is a write through a null pointer, which stops the process.        *)
(***************************************************************************)
NumElems == 3

Elems == 1..NumElems

VARIABLES
    next,       \* next[e]: NULL or an element
    previous,   \* previous[e]
    l_crashed   \* the process was stopped by a write through a null pointer

lvars == <<next, previous, l_crashed>>

ListInit ==
    /\ next = [e \in Elems |-> NULL]
    /\ previous = [e \in Elems |-> NULL]
    /\ l_crashed = FALSE

\* void insert_after(Element* next_element), called on element e.  The
\* three assignments run in order; each reads the fields as the ones before
\* it have left them.
InsertAfter(e, next_element) ==
    /\ ~l_crashed
    /\ LET n1 == [next EXCEPT ![next_element] = next[e]]
           p1 == [previous EXCEPT ![next_element] = e]
           n2 == [n1 EXCEPT ![e] = next_element]
       IN  /\ next' = n2
           /\ previous' = p1
    /\ UNCHANGED l_crashed

\* void insert_before(Element* new_previous), called on element e
InsertBefore(e, new_previous) ==
    /\ ~l_crashed
    /\ IF previous[e] = NULL
       THEN /\ l_crashed' = TRUE
            /\ UNCHANGED <<next, previous>>
       ELSE LET n1 == [next EXCEPT ![previous[e]] = new_previous]
                p1 == [previous EXCEPT ![new_previous] = previous[e]]
                n2 == [n1 EXCEPT ![new_previous] = e]
                p2 == [p1 EXCEPT ![e] = new_previous]
            IN  /\ next' = n2
                /\ previous' = p2
                /\ UNCHANGED l_crashed

(***************************************************************************)
(* The specifications.  The programs do not share state: each              *)
(* specification runs one of them and leaves the others where they start.  *)
(***************************************************************************)
allvars == <<vars, hvars, ovars, rvars, cvars, fvars, uvars, lvars>>

\* every program at its start (the owners with main's texts)
AllInit ==
    /\ Init /\ HeapInit /\ OwnerInit
    /\ RodeoInit /\ CheckedInit /\ FactorialInit /\ UniqueInit /\ ListInit

\* the variables of the other programs
notString == <<hvars, ovars, rvars, cvars, fvars, uvars, lvars>>
notHeap == <<vars, ovars, rvars, cvars, fvars, uvars, lvars>>
notOwner == <<vars, hvars, rvars, cvars, fvars, uvars, lvars>>
notRodeo == <<vars, hvars, ovars, cvars, fvars, uvars, lvars>>
notChecked == <<vars, hvars, ovars, rvars, fvars, uvars, lvars>>
notFactorial == <<vars, hvars, ovars, rvars, cvars, uvars, lvars>>
notUnique == <<vars, hvars, ovars, rvars, cvars, fvars, lvars>>
notList == <<vars, hvars, ovars, rvars, cvars, fvars, uvars>>

\* SimpleString: any sequence of calls of its member functions
SpecInit == AllInit /\ str = MainStr

Next ==
    \/ \E size \in Sizes : Construct(size) /\ UNCHANGED notString
    \/ \E o \in Inst : CopyConstruct(o) /\ UNCHANGED notString
    \/ \E o \in Inst : MoveConstruct(o) /\ UNCHANGED notString
    \/ \E i, o \in Inst : CopyAssign(i, o) /\ UNCHANGED notString
    \/ \E i, o \in Inst : MoveAssign(i, o) /\ UNCHANGED notString
    \/ \E i \in Inst : Destroy(i) /\ UNCHANGED notString
    \/ \E i \in Inst, t \in Texts : AppendLine(i, t) /\ UNCHANGED notString

Spec == SpecInit /\ [][Next]_allvars

\* Heap: main of ccc-7.cpp, or a client making any sequence of calls
HeapSpecInit == AllInit /\ str = MainStr

HeapNext ==
    \/ \E bytes \in Requests : Allocate(bytes) /\ UNCHANGED notHeap
    \/ \E p \in Pointers : Free(p) /\ UNCHANGED notHeap
    \/ MainNewBreakfast /\ UNCHANGED notHeap
    \/ MainNewDinner /\ UNCHANGED notHeap
    \/ MainDeleteBreakfast /\ UNCHANGED notHeap
    \/ MainDeleteDinner /\ UNCHANGED notHeap
    \/ MainLoop /\ UNCHANGED notHeap
    \/ MainCatch /\ UNCHANGED notHeap

HeapSpec == HeapSpecInit /\ [][HeapNext]_allvars

\* SimpleStringOwner: the try block of main of ccc-4.cpp, for any texts
OwnerSpecInit == AllInit

OwnerNext ==
    \/ \E n \in Owners : ConstructOwner(n) /\ UNCHANGED notOwner
    \/ ScopeEnd /\ UNCHANGED notOwner
    \/ Unwind /\ UNCHANGED notOwner
    \/ Catch /\ UNCHANGED notOwner
    \/ Handler /\ UNCHANGED notOwner

OwnerSpec == OwnerSpecInit /\ [][OwnerNext]_allvars

\* The rodeos: main of ccc-19_mutex.cpp under any scheduling of the tasks
RodeoSpecInit == AllInit /\ str = MainStr

RodeoNext ==
    \/ \E t \in Tasks : TaskExit(t) /\ UNCHANGED notRodeo
    \/ \E t \in Tasks : TaskLock(t) /\ UNCHANGED notRodeo
    \/ \E t \in Tasks : TaskLoad(t) /\ UNCHANGED notRodeo
    \/ \E t \in Tasks : TaskStore(t) /\ UNCHANGED notRodeo
    \/ \E t \in Tasks : TaskUnlock(t) /\ UNCHANGED notRodeo
    \/ \E t \in Tasks : AtomicStep(t) /\ UNCHANGED notRodeo
    \/ \E t \in Tasks : Acquire(t) /\ UNCHANGED notRodeo
    \/ WaitCheck /\ UNCHANGED notRodeo
    \/ NotifyAll /\ UNCHANGED notRodeo
    \/ SpuriousWake /\ UNCHANGED notRodeo
    \/ JoinAndPrint /\ UNCHANGED notRodeo

RodeoSpec == RodeoSpecInit /\ [][RodeoNext]_allvars

\* The same, with a scheduler that lets every task that can take a step take
\* one in the end, and a main thread that goes on when both tasks are done
RodeoFairInit == AllInit /\ str = MainStr

RodeoFairNext ==
    \/ \E t \in Tasks : TaskStep(t) /\ UNCHANGED notRodeo
    \/ SpuriousWake /\ UNCHANGED notRodeo
    \/ JoinAndPrint /\ UNCHANGED notRodeo

RodeoFairSpec ==
    /\ RodeoFairInit
    /\ [][RodeoFairNext]_allvars
    /\ \A t \in Tasks : WF_allvars(TaskStep(t) /\ UNCHANGED notRodeo)
    /\ WF_allvars(JoinAndPrint /\ UNCHANGED notRodeo)

\* CheckedInteger: a value, then any sums with it
CheckedSpecInit == AllInit /\ str = MainStr

CheckedNext ==
    \/ \E v \in UInts : CheckedConstruct(v) /\ UNCHANGED notChecked
    \/ \E other \in UInts : CheckedAdd(other) /\ UNCHANGED notChecked

CheckedSpec == CheckedSpecInit /\ [][CheckedNext]_allvars

\* Factorial: any calls, one after the other
FactorialSpecInit == AllInit /\ str = MainStr

FactorialNext ==
    \/ \E n \in FactArgs : FactorialCall(n) /\ UNCHANGED notFactorial
    \/ FactorialEnter /\ UNCHANGED notFactorial
    \/ FactorialReturn /\ UNCHANGED notFactorial

FactorialSpec == FactorialSpecInit /\ [][FactorialNext]_allvars

\* SimpleUniquePointer: main of ccc-6.cpp, or a client
UniqueSpecInit == AllInit /\ str = MainStr

UniqueNext ==
    \/ ClientWrap /\ UNCHANGED notUnique
    \/ \E other \in Ptrs : ClientMove(other) /\ UNCHANGED notUnique
    \/ \E s \in Ptrs : ClientDestroy(s) /\ UNCHANGED notUnique
    \/ \E s \in Ptrs : ClientGet(s) /\ UNCHANGED notUnique
    \/ UMainNew /\ UNCHANGED notUnique
    \/ UMainPrint /\ UNCHANGED notUnique
    \/ UMainCall /\ UNCHANGED notUnique
    \/ UConsumerPrint /\ UNCHANGED notUnique
    \/ UConsumerReturn /\ UNCHANGED notUnique
    \/ UMainEnd /\ UNCHANGED notUnique

UniqueSpec == UniqueSpecInit /\ [][UniqueNext]_allvars

\* Element: any sequence of insertions
ListSpecInit == AllInit /\ str = MainStr

ListNext ==
    \/ \E e, n \in Elems : InsertAfter(e, n) /\ UNCHANGED notList
    \/ \E e, n \in Elems : InsertBefore(e, n) /\ UNCHANGED notList

ListSpec == ListSpecInit /\ [][ListNext]_allvars

(***************************************************************************)
(* Properties of SimpleString                                              *)
(***************************************************************************)

\* the moved-from state: null storage, zero length and zero capacity
MovedFrom(i) == buffer[i] = NULL /\ length[i] = 0 /\ max_size[i] = 0

\* a constructed instance that is not in the moved-from state
Valid(i) == alive[i] /\ ~MovedFrom(i)

\* the array an instance points to (empty for a null pointer)
Data(h, p) == IF p \in Addr THEN h[p].data ELSE <<>>

\* the string an instance holds
Str(i) == CStr(Data(heap, buffer[i]))

\* an instance whose string is not empty and whose array still has chars
\* that were never written: only strcpy into a new array leaves such chars
\* behind a non-empty string, so the instance is a copy
CopiedString(i) ==
    /\ Valid(i) /\ length[i] > 0
    /\ \E k \in 1..Len(Data(heap, buffer[i])) : Data(heap, buffer[i])[k] = Indet

\* The step is a call of append_line(t) on instance i.  (A call that returns
\* true makes length[i] larger and one that returns false clears ok; the
\* first conjunct only spares evaluating the action on other steps.)
IsAppend(i, t) ==
    /\ ~ok' \/ length'[i] > length[i]
    /\ AppendLine(i, t)

\* C1: append_line on a valid instance returns true exactly when
\* length + strlen(text) + 2 <= max_size, and false in every other case.
C1_AppendSucceedsIffFits ==
    [][\A i \in Inst, t \in Texts :
        Valid(i) /\ IsAppend(i, t)
            => (ok' <=> length[i] + Len(t) + 2 <= max_size[i])]_vars

\* append_line has returned false and an instance is full: the empty text
\* does not fit either
C1_Witness ==
    /\ ~ok
    /\ \E i \in Inst : Valid(i) /\ length[i] > 0 /\ length[i] + 1 = max_size[i]

\* C2: a failed append_line leaves buffer pointer, buffer content, length
\* and max_size of the instance as they were before the call.
C2_FailedAppendChangesNothing ==
    [][\A i \in Inst, t \in Texts :
        Valid(i) /\ ~ok' /\ AppendLine(i, t)
            => /\ buffer'[i] = buffer[i]
               /\ length'[i] = length[i]
               /\ max_size'[i] = max_size[i]
               /\ Data(heap', buffer[i]) = Data(heap, buffer[i])]_vars

\* append_line has returned false while an instance holds a line of text and
\* has chars left, but not enough of them
C2_Witness ==
    /\ ~ok
    /\ \E i \in Inst : Valid(i) /\ length[i] > 0 /\ length[i] + 1 < max_size[i]

\* C3: a successful append_line(text) adds strlen(text) + 1 to length, the
\* buffer then holds the previous content, text and one newline, and
\* buffer[length] is NUL at the new length.
C3_SuccessfulAppendEffect ==
    [][\A i \in Inst, t \in Texts :
        ok' /\ IsAppend(i, t)
            => LET b == buffer[i]
               IN  /\ length'[i] = length[i] + Len(t) + 1
                   /\ buffer'[i] = b
                   /\ CStr(Data(heap', b)) = CStr(Data(heap, b)) \o t \o <<NL>>
                   /\ length'[i] < Len(Data(heap', b))
                   /\ Data(heap', b)[length'[i] + 1] = NUL]_vars

\* an instance holds a line with a non-empty text
C3_Witness ==
    /\ ok
    /\ \E i \in Inst : Valid(i) /\ Len(Str(i)) >= 2 /\ Str(i)[1] \in Letters

\* C4: every allocated buffer is released exactly once: never twice, never
\* while a live instance holds it, none is left once all instances are
\* destroyed, and destroying a moved-from instance releases nothing.
C4_Released ==
    /\ ~badFree
    /\ \A i \in Inst : alive[i] /\ buffer[i] # NULL => heap[buffer[i]].allocated
    /\ (\A i \in Inst : ~alive[i]) => \A a \in Addr : ~heap[a].allocated

C5_ExclusiveOwnership ==
    \A i, j \in Inst :
        i # j /\ alive[i] /\ alive[j] /\ buffer[i] # NULL => buffer[i] # buffer[j]

\* a copy and another instance of the same capacity are both live
C5_Witness ==
    \E i, j \in Inst :
        /\ i # j /\ CopiedString(i) /\ Valid(j)
        /\ max_size[i] = max_size[j]
        /\ buffer[i] # NULL /\ buffer[j] # NULL

\* C6: between calls, an instance that is not moved-from has a non-null
\* buffer of max_size chars and 0 <= length < max_size, so the chars an
\* append writes (up to index length) lie below index max_size.
C6_LengthBelowMaxSize ==
    ~crashed =>
        \A i \in Inst : Valid(i) =>
            /\ buffer[i] # NULL
            /\ heap[buffer[i]].allocated
            /\ Len(heap[buffer[i]].data) = max_size[i]
            /\ 0 <= length[i] /\ length[i] < max_size[i]

\* an append has filled an instance up to its last char
C6_Witness ==
    /\ ok
    /\ \E i \in Inst : Valid(i) /\ length[i] > 0 /\ length[i] = max_size[i] - 1

\* C7: between calls, buffer[length] is NUL in every instance that is not
\* moved-from: after construction, append_line, copy, move and assignment.
C7_NullTerminated ==
    ~crashed =>
        \A i \in Inst : Valid(i) =>
            /\ length[i] < Len(Data(heap, buffer[i]))
            /\ Data(heap, buffer[i])[length[i] + 1] = NUL

\* a constructor has returned an empty instance with room for text
C7_Witness ==
    /\ ok
    /\ \E i \in Inst : Valid(i) /\ length[i] = 0 /\ max_size[i] = MaxSize

\* what a move does to destination i and source o
MoveEffect(i, o) ==
    /\ buffer'[i] = buffer[o]
    /\ length'[i] = length[o]
    /\ max_size'[i] = max_size[o]
    /\ Data(heap', buffer[o]) = Data(heap, buffer[o])
    /\ buffer'[o] = NULL /\ length'[o] = 0 /\ max_size'[o] = 0

\* C8: a move (constructor, or assignment to another instance) gives the
\* destination the source's former buffer, length and max_size and leaves
\* the source with a null buffer, length 0 and max_size 0.
C8_MoveTransfers ==
    [][/\ alive' # alive =>
            \A o \in Inst : alive[o] /\ MoveConstruct(o) => MoveEffect(NewSlot, o)
       /\ alive' = alive =>
            \A i, o \in Inst : i # o /\ MoveAssign(i, o) => MoveEffect(i, o)]_vars

\* a moved-from instance sits beside one that holds a line
C8_Witness ==
    \E i, o \in Inst :
        /\ alive[i] /\ alive[o] /\ MovedFrom(o)
        /\ Valid(i) /\ length[i] > 0

\* C9: an append_line on one instance leaves content and length of every
\* other instance unchanged; in particular appends on a copy leave the
\* original unchanged and appends on the original leave the copy unchanged.
C9_CopyIsIndependent ==
    [][\A i \in Inst, t \in Texts :
        IsAppend(i, t)
            => \A j \in Inst : j # i /\ alive[j] =>
                /\ length'[j] = length[j]
                /\ max_size'[j] = max_size[j]
                /\ buffer'[j] = buffer[j]
                /\ Data(heap', buffer[j]) = Data(heap, buffer[j])]_vars

\* a copy beside an instance of the same capacity that holds the copy's
\* string and one more line: the original was appended to after the copy
C9_Witness ==
    \E i, j \in Inst :
        /\ i # j /\ CopiedString(j) /\ Valid(i)
        /\ max_size[i] = max_size[j]
        /\ length[i] > length[j]
        /\ SubSeq(Str(i), 1, length[j]) = Str(j)

\* what a copy does to destination i, given source o
CopyEffect(i, o) ==
    /\ buffer'[i] \in Addr
    /\ ~heap[buffer'[i]].allocated
    /\ heap'[buffer'[i]].allocated
    /\ Len(heap'[buffer'[i]].data) = max_size[o]
    /\ \A j \in Inst : j # i /\ alive'[j] => buffer'[j] # buffer'[i]
    /\ alive'[i]
    /\ max_size'[i] = max_size[o]
    /\ length'[i] = length[o]
    /\ CStr(Data(heap', buffer'[i])) = CStr(Data(heap, buffer[o]))
    /\ buffer'[o] = buffer[o] /\ length'[o] = length[o]
    /\ max_size'[o] = max_size[o]
    /\ Data(heap', buffer[o]) = Data(heap, buffer[o])

\* The step is the assignment i = o.  (An assignment from another instance
\* gives i an array at an address that was free, so buffer[i] changes; the
\* first conjunct only spares evaluating the action on other steps.)
IsCopyAssign(i, o) ==
    /\ i = o \/ buffer'[i] # buffer[i]
    /\ CopyAssign(i, o)

\* C10: copying a valid instance (constructor or assignment) yields an
\* instance with a newly allocated buffer of its own whose max_size, length
\* and content equal the source's; self copy-assignment changes nothing.
C10_CopyEqualsSource ==
    [][/\ alive' # alive =>
            \A o \in Inst : Valid(o) /\ CopyConstruct(o) => CopyEffect(NewSlot, o)
       /\ alive' = alive =>
            \A i, o \in Inst : Valid(o) /\ IsCopyAssign(i, o) =>
                IF i = o
                THEN UNCHANGED <<alive, max_size, length, buffer, heap>>
                ELSE CopyEffect(i, o)]_vars

\* a copy beside an instance that holds the same line
C10_Witness ==
    \E i, j \in Inst :
        /\ i # j /\ CopiedString(i) /\ Valid(j)
        /\ buffer[i] # buffer[j]
        /\ length[i] = length[j] /\ Str(i) = Str(j)

(***************************************************************************)
(* Properties of the constructor SimpleString(size_t)                      *)
(***************************************************************************)

\* C11: for every capacity C > 0, SimpleString(C) yields an instance with
\* max_size = C, length = 0 and buffer[0] = NUL: an empty string in an array
\* of C chars of its own.
C11_ConstructEmpty ==
    [][\A size \in Sizes :
        size > 0 /\ alive' # alive /\ Construct(size)
            => LET i == NewSlot
               IN  /\ ok'
                   /\ alive'[i] /\ max_size'[i] = size /\ length'[i] = 0
                   /\ buffer'[i] \in Addr
                   /\ ~heap[buffer'[i]].allocated
                   /\ heap'[buffer'[i]].allocated
                   /\ Len(heap'[buffer'[i]].data) = size
                   /\ heap'[buffer'[i]].data[1] = NUL
                   /\ CStr(heap'[buffer'[i]].data) = <<>>]_vars

\* the smallest and the largest capacity have both been constructed
C11_Witness ==
    /\ ok
    /\ \E i, j \in Inst :
        /\ Valid(i) /\ max_size[i] = 1 /\ length[i] = 0 /\ Str(i) = <<>>
        /\ Valid(j) /\ max_size[j] = MaxSize /\ length[j] = 0 /\ Str(j) = <<>>

\* C12: SimpleString(0) fails, and fails before anything is allocated: no
\* instance and no array exist that did not exist before the call.  No
\* other capacity makes the constructor fail.
C12_ZeroCapacityThrows ==
    [][\A size \in Sizes :
        Construct(size)
            => /\ ok' <=> size > 0
               /\ size = 0 =>
                    /\ alive' = alive
                    /\ heap' = heap
                    /\ buffer' = buffer
                    /\ max_size' = max_size
                    /\ length' = length]_vars

\* the constructor has thrown while no instance exists: nothing is allocated
C12_Witness ==
    /\ ~ok
    /\ \A i \in Inst : ~alive[i] /\ buffer[i] = NULL
    /\ FreeAddrs(heap) = Addr

(***************************************************************************)
(* Properties of Heap                                                      *)
(***************************************************************************)

\* the number of buckets in use
UsedCount(used) == Cardinality({i \in Buckets : used[i]})

C14_NoBlockHandedOutTwice ==
    /\ [](\A i \in Buckets : held[i] <= 1)
    /\ [][\A bytes \in Requests :
            HeapAllocate(bytes) /\ ~threw'
                => \E i \in Buckets : ret' = DataAddr(i) /\ held[i] = 0]_hvars

\* the first block was released and handed out again while the second was
\* still held
C14_Witness ==
    /\ ret = DataAddr(0) /\ ~threw
    /\ held[0] = 1 /\ held[1] = 1
    /\ streak = -1

\* C15: a bucket's flag is set exactly when one outstanding allocation
\* holds the bucket, no bucket is held twice, and at most 10 buckets are in
\* use; free of an address that is not held does not disturb this.
C15_FlagIffHeld ==
    /\ \A i \in Buckets :
        /\ held[i] \in {0, 1}
        /\ bucket_used[i] <=> held[i] = 1
    /\ UsedCount(bucket_used) <= 10

\* the last call was a free that released nothing (a second free of a
\* block, or a pointer that is no block), beside blocks that are held
C15_Witness ==
    /\ ret = NULL /\ ~threw /\ streak = -1 /\ last_freed = NULL
    /\ main_pc = "client"
    /\ \E i, j \in Buckets : i < j /\ ~bucket_used[i] /\ bucket_used[j]

\* C16: free(p) clears the flag of the one bucket whose data address is p
\* and leaves every other flag as it was; when p is the data address of no
\* bucket (null, a pointer into a block, a foreign address) nothing changes;
\* no call of free reports an error.
C16_FreeClearsOneFlag ==
    [][\A p \in Pointers :
        ret' = NULL /\ ~threw' /\ HeapFree(p)
            => IF \E i \in Buckets : p = buckets_base + i * 4096
               THEN bucket_used' =
                        [bucket_used EXCEPT ![(p - buckets_base) \div 4096] = FALSE]
               ELSE bucket_used' = bucket_used]_hvars

\* a block was released while another block stays in use
C16_Witness ==
    /\ last_freed # NULL /\ ~threw
    /\ ~bucket_used[BucketOf(last_freed)]
    /\ \E i \in Buckets : bucket_used[i]

\* C17: a successful allocate returns the lowest-indexed bucket that was
\* free when it was called, and sets that bucket's flag only; in main the
\* first two allocations get bucket 0 and bucket 1, 4096 bytes apart.
C17_FirstFit ==
    /\ [][\A bytes \in Requests :
            HeapAllocate(bytes) /\ ~threw'
                => \E i \in Buckets :
                    /\ ret' = DataAddr(i)
                    /\ ~bucket_used[i]
                    /\ \A j \in Buckets : j < i => bucket_used[j]
                    /\ bucket_used' = [bucket_used EXCEPT ![i] = TRUE]]_hvars
    /\ [](main_pc = "delete_breakfast"
            => /\ breakfast = DataAddr(0)
               /\ dinner = DataAddr(1)
               /\ dinner - breakfast = 4096)

\* a gap between buckets in use was filled: the block returned last lies
\* above a bucket in use and below another one
C17_Witness ==
    /\ ~threw
    /\ \E i \in Buckets :
        /\ i > 0 /\ i < n_heap_buckets - 1
        /\ ret = DataAddr(i)
        /\ bucket_used[i - 1] /\ bucket_used[i + 1]

\* C18: from the heap with all 10 buckets free, 10 allocations in a row
\* (each of at most 4096 bytes) return 10 distinct blocks and the 11th
\* throws; when one of the 10 blocks is then released, the next allocation
\* returns exactly the released address.
C18_FillReleaseRefill ==
    /\ [](streak \in 1..10
            => /\ ~threw /\ ret \in BlockAddrs
               /\ UsedCount(bucket_used) = streak
               /\ \A i \in Buckets : held[i] = IF bucket_used[i] THEN 1 ELSE 0)
    /\ [](streak = 11
            => threw /\ ret = NULL /\ UsedCount(bucket_used) = 10)
    /\ [](streak = 12
            => last_freed \in BlockAddrs /\ UsedCount(bucket_used) = 9)
    /\ [][\A bytes \in Requests :
            streak = 12 /\ bytes <= 4096 /\ HeapAllocate(bytes)
                => ~threw' /\ ret' = last_freed /\ streak' = 13]_hvars

\* the heap was filled, the 11th allocation failed or was not tried, a
\* block in the middle was released and the allocation after that got it
C18_Witness ==
    /\ streak = 13
    /\ ret = DataAddr(4) /\ ~threw
    /\ UsedCount(bucket_used) = n_heap_buckets

\* C19: in main, after breakfast and dinner were allocated and deleted, the
\* body of the allocation loop runs exactly 10 times, once per bucket,
\* before the 11th allocation throws std::bad_alloc.
C19_MainLoopRunsTenTimes ==
    /\ main_pc # "terminated"
    /\ main_pc = "loop"
        => loops <= 10 /\ UsedCount(bucket_used) = loops
    /\ main_pc \in {"caught", "done"}
        => loops = 10 /\ threw /\ UsedCount(bucket_used) = 10

\* main has caught std::bad_alloc
C19_Witness ==
    /\ main_pc = "done"
    /\ loops = n_heap_buckets
    /\ breakfast = DataAddr(0) /\ dinner = DataAddr(1)

(***************************************************************************)
(* Properties of SimpleStringOwner                                         *)
(***************************************************************************)

\* the array of the string of owner n was allocated and released once
ReleasedOnce(n) == o_allocs[n] = 1 /\ o_frees[n] = 1

\* C20: with main's texts the constructor of c fails ("Not enough memory!");
\* while the exception propagates b is destroyed before a, the destructor
\* body of c never runs and d is never constructed, all of it before the
\* handler is entered; the arrays of a, b and c are each released exactly
\* once.  Whatever the texts, no array is released twice or before it is
\* allocated, and none is left when the try statement is over.
C20_UnwindingReleasesOnce ==
    /\ \A n \in Owners : o_frees[n] <= o_allocs[n] /\ o_allocs[n] <= 1
    /\ o_pc = "after" => \A n \in Owners : o_frees[n] = o_allocs[n]
    /\ (str = MainStr /\ o_pc \in {"handler", "after"})
        => /\ log = << <<"ctor", "a">>, <<"ctor", "b">>, <<"throw", "c">>,
                       <<"dtor", "b">>, <<"dtor", "a">>, <<"catch">> >>
           /\ o_state = [a |-> "destroyed", b |-> "destroyed",
                         c |-> "failed", d |-> "none"]
           /\ ReleasedOnce("a") /\ ReleasedOnce("b") /\ ReleasedOnce("c")
           /\ o_allocs["d"] = 0 /\ o_frees["d"] = 0
    /\ (str = MainStr /\ o_pc = "unwind")
        => /\ o_state["c"] = "failed" /\ o_state["d"] = "none"
           /\ ReleasedOnce("c")
           /\ o_state["a"] = "destroyed" => o_state["b"] = "destroyed"

\* main's run has passed the handler
C20_Witness ==
    /\ str = MainStr
    /\ o_pc = "after"
    /\ Len(log) = 6 /\ log[6] = <<"catch">>
    /\ o_frees = [a |-> 1, b |-> 1, c |-> 1, d |-> 0]

(***************************************************************************)
(* Properties of the rodeos                                                *)
(***************************************************************************)

\* both tasks of the call that runs have completed
BothDone == \A t \in Tasks : r_pc[t] = "done"

\* C21: in goat_rodeo, raii_rodeo and atomic_rodeo no increment and no
\* decrement is lost, however the two tasks interleave: once both have
\* completed tin_cans_available is 0, and 0 is what the rodeo prints.
C21_NoLostUpdate ==
    /\ (Rodeo \in {"goat", "raii", "atomic"} /\ BothDone)
        => tin_cans_available = 0
    /\ \A k \in 1..Len(printed) :
        MainCalls[k] \in {"goat", "raii", "atomic"} => printed[k] = 0

\* the three calls of each of the three rodeos have printed
C21_Witness ==
    /\ Len(printed) = 9
    /\ Rodeo = "conditional"

\* C22: in conditional_rodeo eat_cans makes its first decrement only when
\* tin_cans_available equals iterations (all deposits are done) and while
\* it holds the mutex; the counter stays within 0..iterations, and no
\* decrement comes between the halves of an increment nor the other way
\* round.
C22_EatWaitsForAllDeposits ==
    Rodeo = "conditional" =>
        /\ tin_cans_available \in 0..Iterations
        /\ (r_pc["eat"] \in {"load", "store"} /\ r_i["eat"] = 0)
            => /\ mutex = "eat"
               /\ r_pc["deposit"] = "done"
               /\ r_i["deposit"] = Iterations
               /\ IF r_pc["eat"] = "load"
                  THEN tin_cans_available = Iterations
                  ELSE r_reg["eat"] = Iterations
        /\ r_pc["eat"] \in {"load", "store"} => mutex = "eat"
        /\ r_pc["deposit"] \in {"load", "store", "notify"} => mutex = "deposit"
        /\ ~(r_pc["eat"] \in {"load", "store"}
                /\ r_pc["deposit"] \in {"load", "store"})

\* eat_cans, woken once before the deposits were done, is about to make its
\* first decrement
C22_Witness ==
    /\ Rodeo = "conditional"
    /\ r_pc["eat"] = "load" /\ r_i["eat"] = 0
    /\ spurious > 0
    /\ tin_cans_available = Iterations

\* C23: conditional_rodeo terminates with tin_cans_available = 0 under
\* every scheduling, whichever task takes the mutex first, also when
\* notify_all is called before eat_cans has started to wait: every call
\* main makes returns, and every call of conditional_rodeo prints 0.
C23_ConditionalTerminates ==
    /\ <>(r_call = Len(MainCalls) + 1)
    /\ [](\A k \in 1..Len(printed) :
            MainCalls[k] = "conditional" => printed[k] = 0)
    /\ []((Rodeo = "conditional" /\ BothDone)
            => tin_cans_available = 0 /\ mutex = "free" /\ waiting = {})

\* both tasks of a conditional_rodeo have completed, and notify_all had been
\* called before eat_cans took the mutex for the first time
C23_Witness ==
    /\ Rodeo = "conditional"
    /\ BothDone
    /\ early_notify
    /\ tin_cans_available = 0

(***************************************************************************)
(* Properties of CheckedInteger and Factorial                              *)
(***************************************************************************)

\* C24: CheckedInteger{v} + other throws std::overflow_error exactly when
\* the sum v + other, taken in the integers, exceeds the largest unsigned
\* int; otherwise the result holds exactly v + other.  The left operand is
\* not changed either way.
C24_CheckedAddition ==
    /\ [](c_pc = "added" =>
            /\ c_threw <=> (c_value + c_other > UIntMax)
            /\ ~c_threw => c_result = c_value + c_other)
    /\ [][\A other \in UInts : CheckedAdd(other) => c_value' = c_value]_allvars

\* an addition whose sum is one more than the largest unsigned int has
\* thrown, and the left operand is what it was constructed with
C24_Witness ==
    /\ c_pc = "added"
    /\ c_threw
    /\ c_value > 0
    /\ c_value + c_other = UIntMax + 1

\* n! for n = 0..12
FactorialTable ==
    << 1, 1, 2, 6, 24, 120, 720, 5040, 40320, 362880, 3628800, 39916800,
       479001600 >>

\* C25: Factorial(n) throws std::range_error for n < 0, returns 1 for
\* n = 0 and n = 1, and returns the product 1 * 2 * ... * n for
\* 2 <= n <= 12 without overflowing int; Factorial(10) is 3628800.
C25_Factorial ==
    /\ f_pc = "thrown" => f_arg < 0
    /\ (f_pc \in {"returned", "thrown"} /\ f_arg < 0) => f_pc = "thrown"
    /\ (f_pc = "returned" /\ f_arg \in 0..12)
        => f_value = FactorialTable[f_arg + 1] /\ ~f_undefined
    /\ (f_pc = "returned" /\ f_arg \in {0, 1}) => f_value = 1
    /\ (f_pc = "returned" /\ f_arg = 10) => f_value = 3628800

\* Factorial(12) has returned 479001600
C25_Witness ==
    /\ f_pc = "returned"
    /\ f_arg = 12
    /\ f_value = 479001600

(***************************************************************************)
(* Properties of SimpleUniquePointer                                       *)
(***************************************************************************)

\* the wrappers that point to object x
Holders(x) == {s \in Ptrs : u_alive[s] /\ pointer[s] = x}

\* C26: after a SimpleUniquePointer is move-constructed from another, the
\* source's get() is null and the destination has the pointer; the object
\* is deleted exactly once, when the wrapper that holds it is destroyed,
\* and not again when the source is destroyed.  In main the Tracer is
\* deleted when consumer returns, before the second print, which shows a
\* null ptr_a, and the end of main does not delete it again.
C26_MoveTransfersOwnership ==
    /\ [](\A x \in Tracers :
            /\ t_deletes[x] <= 1
            /\ Cardinality(Holders(x)) <= 1
            /\ t_deletes[x] = 1 => Holders(x) = {})
    /\ [][\A other \in Ptrs : ClientMove(other) \/ (UMainCall /\ other = ptr_a)
            => /\ pointer'[other] = NULL
               /\ \E s \in Ptrs : /\ ~u_alive[s] /\ u_alive'[s]
                                  /\ pointer'[s] = pointer[other]
               /\ t_deletes' = t_deletes]_allvars
    /\ [][\A s \in Ptrs :
            ClientDestroy(s) \/ (UConsumerReturn /\ s = consumer_ptr)
                             \/ (UMainEnd /\ s = ptr_a)
            => \A x \in Tracers :
                t_deletes'[x] = t_deletes[x] + (IF pointer[s] = x THEN 1 ELSE 0)]_allvars
    /\ [](u_pc \in {"print2", "end", "done"} =>
            /\ t_deletes[1] = 1
            /\ ptr_a # 0 => pointer[ptr_a] = NULL)
    /\ [](u_pc \in {"end", "done"} => u_got = NULL)
    /\ [](u_pc \in {"cons_print", "cons_return"} =>
            /\ t_deletes[1] = 0
            /\ pointer[ptr_a] = NULL
            /\ pointer[consumer_ptr] = 1)

\* main has returned: ptr_a, moved from, was destroyed after consumer's
\* parameter, and the Tracer was deleted once
C26_Witness ==
    /\ u_pc = "done"
    /\ t_made[1]
    /\ t_deletes[1] = 1
    /\ u_got = NULL
    /\ \A s \in Ptrs : ~u_alive[s]

(***************************************************************************)
(* Properties of a moved-from SimpleString                                 *)
(***************************************************************************)

\* C27: append_line on a moved-from SimpleString returns false for every
\* text, the empty text included: nothing is written through the null
\* buffer, the process goes on, and no field and no array changes.
C27_AppendToMovedFromFails ==
    [][\A i \in Inst : \A t \in Texts :
        (alive[i] /\ MovedFrom(i) /\ AppendLine(i, t))
            => /\ ~ok' /\ ~crashed'
               /\ UNCHANGED <<alive, max_size, length, buffer, heap, badFree>>]_allvars

\* append_line has returned false and the only instance is moved-from (the
\* instance that took its array is destroyed)
C27_Witness ==
    /\ ~ok /\ ~crashed
    /\ \E i \in Inst : /\ alive[i] /\ MovedFrom(i)
                       /\ \A j \in Inst \ {i} : ~alive[j]

\* C28: the copy constructor and the copy assignment never read null
\* storage, whatever the source, a moved-from source included.
C28_CopyNeverReadsNull ==
    [][\A i, o \in Inst :
        ((alive[o] /\ CopyConstruct(o)) \/ (i # o /\ CopyAssign(i, o)))
            => buffer[o] # NULL /\ ~crashed']_allvars

(***************************************************************************)
(* Properties of Element                                                   *)
(***************************************************************************)

\* the links agree in both directions
ConsistentlyLinked ==
    \A e \in Elems :
        /\ next[e] # NULL => previous[next[e]] = e
        /\ previous[e] # NULL => next[previous[e]] = e

\* C29: after any sequence of insert_after and insert_before (insert_before
\* only on an element that has a predecessor) the list is consistently
\* doubly linked: every next link is answered by the previous link of the
\* element it leads to, and the other way round.
C29_ConsistentlyLinked == ~l_crashed => ConsistentlyLinked

=============================================================================
